---- MODULE Spec2Model ----
(***************************************************************************)
(* A model of pyrevit.coreutils: the script metadata parser                *)
(* (ScriptFileParser) and the directory fingerprint (calculate_dir_hash).  *)
(*                                                                         *)
(* Python values, AST nodes, call outcomes and exceptions are records so   *)
(* that attribute tests (hasattr) are tests on the record's DOMAIN.        *)
(***************************************************************************)
EXTENDS Integers, Sequences, FiniteSets, TLC

VARIABLES
    disk,       \* the script file on disk: [readable, text]
    parser,     \* the caller's reference to the ScriptFileParser instance
    ctor,       \* outcome of the last constructor call
    last,       \* the last extract_param call: [param, out]
    asked,      \* every extract_param call made so far, as [param, out]
    fs,         \* the directory tree: names, mtimes, listability, order
    prev,       \* outcome of the calculate_dir_hash call before `cur`
    cur,        \* outcome of the latest calculate_dir_hash call
    touched,    \* the file whose mtime changed since the latest call
    between,    \* the file whose mtime changed between `prev` and `cur`
    ncalls      \* number of calculate_dir_hash calls made

vars == <<disk, parser, ctor, last, asked, fs, prev, cur, touched, between, ncalls>>
parserVars == <<disk, parser, ctor, last, asked>>
hashVars == <<fs, prev, cur, touched, between, ncalls>>

(* ------------------------------ bounds --------------------------------- *)

MaxLines == 3
MaxCalls == 2

(* --------------------------- call outcomes ----------------------------- *)

Return(v) == [raised |-> FALSE, value |-> v]
Raise(e) == [raised |-> TRUE, exc |-> e]
NoCall == [raised |-> FALSE, nocall |-> TRUE]

(* --------------------------- Python values ----------------------------- *)

PyNone == [t |-> "None"]
PyInt(n) == [t |-> "int", v |-> n]
PyTuple(s) == [t |-> "tuple", elts |-> s]

(* ------------------------------ AST nodes ------------------------------ *)

Num(n) == [node |-> "Num", n |-> n]
Name(id) == [node |-> "Name", id |-> id]
CallE(f) == [node |-> "Call", func |-> Name(f)]
TupleE(elts) == [node |-> "Tuple", elts |-> elts]

(* ------------------------- script source text -------------------------- *)

FileAddr == "script.py"
ParamNames == {"x", "y"}

\* One line of source text: its indentation level and the statement on it.
Line(indent, stmt) == [indent |-> indent, stmt |-> stmt]
SrcAssign(targets, value) == [s |-> "assign", targets |-> targets, value |-> value]
SrcDel(targets) == [s |-> "del", targets |-> targets]
SrcDef == [s |-> "def", name |-> "f"]
SrcPass == [s |-> "pass"]
SrcBad == [s |-> "bad"]          \* e.g. an unmatched parenthesis: x = (1

TopLines ==
    { Line(0, SrcAssign(<<Name("x")>>, Num(1))),                     \* x = 1
      Line(0, SrcAssign(<<Name("x")>>, Num(2))),                     \* x = 2
      Line(0, SrcAssign(<<Name("x")>>, CallE("f"))),                 \* x = f()
      Line(0, SrcAssign(<<Name("y")>>, TupleE(<<Num(1), Name("z")>>))), \* y = (1, z)
      Line(0, SrcAssign(<<Name("y"), Name("x")>>, Name("None"))),    \* y = x = None
      Line(0, SrcAssign(<<TupleE(<<Name("x"), Name("y")>>)>>,
                        TupleE(<<Num(1), Num(2)>>))),                \* (x, y) = (1, 2)
      Line(0, SrcDel(<<Name("x")>>)),                                \* del x
      Line(0, SrcDef),                                               \* def f():
      Line(0, SrcPass),                                              \* pass
      Line(0, SrcBad) }

NestedLines ==
    { Line(1, SrcAssign(<<Name("x")>>, Num(2))),                     \*     x = 2
      Line(1, SrcAssign(<<Name("y")>>, CallE("f"))),                 \*     y = f()
      Line(1, SrcPass) }                                             \*     pass

LineSet == TopLines \cup NestedLines
Texts == UNION { [1..n -> LineSet] : n \in 0..MaxLines }
Files == { [readable |-> TRUE, text |-> t] : t \in Texts }
             \cup { [readable |-> FALSE, text |-> <<>>] }

(* ------------------------------ ast.parse ------------------------------ *)

Exc(type) == [type |-> type]
PyRevitException(msg) == [type |-> "PyRevitException", msg |-> msg]

ToNode(stmt) ==
    CASE stmt.s = "assign" ->
             [node |-> "Assign", targets |-> stmt.targets, value |-> stmt.value]
      [] stmt.s = "del" -> [node |-> "Delete", targets |-> stmt.targets]
      [] stmt.s = "def" ->
             [node |-> "FunctionDef", name |-> stmt.name, body |-> <<>>]
      [] OTHER -> [node |-> "Pass"]

Module(body) == [node |-> "Module", body |-> body]

\* body: the module's statements so far; open: the last of them is a
\* FunctionDef whose block may still take indented lines.
RECURSIVE parse_lines(_, _, _, _)
parse_lines(lines, i, body, open) ==
    IF i > Len(lines)
    THEN IF open /\ body[Len(body)].body = <<>>
         THEN Raise(Exc("IndentationError"))     \* expected an indented block
         ELSE Return(Module(body))
    ELSE LET ln == lines[i] IN
         IF ln.stmt.s = "bad" THEN Raise(Exc("SyntaxError"))
         ELSE IF ln.indent = 1
         THEN IF ~open
              THEN Raise(Exc("IndentationError"))     \* unexpected indent
              ELSE parse_lines(lines, i + 1,
                       [body EXCEPT ![Len(body)].body = Append(@, ToNode(ln.stmt))],
                       TRUE)
         ELSE IF open /\ body[Len(body)].body = <<>>
              THEN Raise(Exc("IndentationError"))
              ELSE parse_lines(lines, i + 1, Append(body, ToNode(ln.stmt)),
                               ln.stmt.s = "def")

ast_parse(text) == parse_lines(text, 1, <<>>, FALSE)

\* The direct children of a Module node are the statements of its body.
iter_child_nodes(tree) == tree.body

(* --------------------------- ast.literal_eval -------------------------- *)

safe_names == {"None", "True", "False"}
safe_value(id) == IF id = "None" THEN PyNone ELSE [t |-> "bool", v |-> (id = "True")]

RECURSIVE literal_eval_convert(_)
literal_eval_convert(node) ==
    CASE node.node = "Num" -> Return(PyInt(node.n))
      [] node.node = "Tuple" ->
             LET parts == [k \in 1..Len(node.elts) |-> literal_eval_convert(node.elts[k])]
             IN IF \E k \in 1..Len(parts) : parts[k].raised
                THEN Raise(Exc("ValueError"))
                ELSE Return(PyTuple([k \in 1..Len(parts) |-> parts[k].value]))
      [] node.node = "Name" /\ node.id \in safe_names -> Return(safe_value(node.id))
      [] OTHER -> Raise(Exc("ValueError"))          \* malformed string

literal_eval(node) == literal_eval_convert(node)

(* --------------------------- ScriptFileParser -------------------------- *)

NoInstance == [none |-> TRUE]

\* A constructor that swallows the failure and hands out the instance.
ScriptFileParser__init__swallow(file_address, file) ==
    LET self == [file_addr |-> file_address] IN
    IF ~file.readable
    THEN Return(self)
    ELSE LET t == ast_parse(file.text) IN
         IF t.raised
         THEN Return(self)
         ELSE Return([file_addr |-> file_address, ast_tree |-> t.value])

ScriptFileParser__init__(file_address, file) ==
    LET self == [file_addr |-> file_address] IN
    IF ~file.readable
    THEN Raise(PyRevitException(
             <<"Error parsing script file", self.file_addr, Exc("IOError")>>))
    ELSE LET t == ast_parse(file.text) IN
         IF t.raised
         THEN Raise(PyRevitException(
                  <<"Error parsing script file", self.file_addr, t.exc>>))
         ELSE Return([file_addr |-> file_address, ast_tree |-> t.value])

\* hasattr(target, 'id') and target.id == param_name, for some target
names_param(child, param_name) ==
    \E j \in 1..Len(child.targets) :
        "id" \in DOMAIN child.targets[j] /\ child.targets[j].id = param_name

\* A scan that lets the last matching statement win.
RECURSIVE scan_rev(_, _, _)
scan_rev(children, j, param_name) ==
    IF j < 1
    THEN Return(PyNone)
    ELSE LET child == children[j] IN
         IF "targets" \in DOMAIN child /\ names_param(child, param_name)
         THEN IF "value" \in DOMAIN child
              THEN literal_eval(child.value)
              ELSE Raise(Exc("AttributeError"))
         ELSE scan_rev(children, j - 1, param_name)

scan_children_last(children, i, param_name) ==
    scan_rev(children, Len(children) - i + 1, param_name)

RECURSIVE scan_children(_, _, _)
scan_children(children, i, param_name) ==
    IF i > Len(children)
    THEN Return(PyNone)
    ELSE LET child == children[i] IN
         IF "targets" \in DOMAIN child /\ names_param(child, param_name)
         THEN IF "value" \in DOMAIN child
              THEN literal_eval(child.value)
              ELSE Raise(Exc("AttributeError"))
         ELSE scan_children(children, i + 1, param_name)

\* An extract_param that defaults silently when the value is no literal.
extract_param_default(self, param_name) ==
    LET r == IF "ast_tree" \in DOMAIN self
             THEN scan_children(iter_child_nodes(self.ast_tree), 1, param_name)
             ELSE Raise(Exc("AttributeError"))
    IN [self |-> self, out |-> IF r.raised THEN Return(PyNone) ELSE r]

\* An extract_param whose failure drops the parsed tree.
extract_param_invalidating(self, param_name) ==
    LET r == IF "ast_tree" \in DOMAIN self
             THEN scan_children(iter_child_nodes(self.ast_tree), 1, param_name)
             ELSE Raise(Exc("AttributeError"))
    IN [self |-> IF r.raised /\ "ast_tree" \in DOMAIN self
                 THEN [self EXCEPT !.ast_tree = Module(<<>>)]
                 ELSE self,
        out |-> IF r.raised
                THEN Raise(PyRevitException(
                         <<"Error parsing parameter", param_name, self.file_addr, r.exc>>))
                ELSE r]

\* The call's outcome, and the instance as the call leaves it.
extract_param(self, param_name) ==
    LET r == IF "ast_tree" \in DOMAIN self
             THEN scan_children(iter_child_nodes(self.ast_tree), 1, param_name)
             ELSE Raise(Exc("AttributeError"))
    IN [self |-> self,
        out |-> IF r.raised
                THEN Raise(PyRevitException(
                         <<"Error parsing parameter", param_name, self.file_addr, r.exc>>))
                ELSE r]

(* ------------------------------ actions -------------------------------- *)

Construct ==
    /\ parser = NoInstance
    /\ LET r == ScriptFileParser__init__(FileAddr, disk) IN
         /\ ctor' = r
         /\ parser' = IF r.raised THEN parser ELSE r.value
    /\ UNCHANGED <<disk, last, asked, hashVars>>

ExtractParam ==
    /\ parser # NoInstance
    /\ \E name \in ParamNames :
         LET r == extract_param(parser, name) IN
           /\ parser' = r.self
           /\ last' = [param |-> name, out |-> r.out]
           /\ asked' = asked \cup {[param |-> name, out |-> r.out]}
    /\ UNCHANGED <<disk, ctor, hashVars>>

NoQuery == [param |-> "", out |-> NoCall]

HashIdle ==
    /\ fs = <<>>
    /\ prev = NoCall
    /\ cur = NoCall
    /\ touched = ""
    /\ between = ""
    /\ ncalls = 0

Init ==
    /\ disk \in Files
    /\ parser = NoInstance
    /\ ctor = NoCall
    /\ last = NoQuery
    /\ asked = {}
    /\ HashIdle

Next == Construct \/ ExtractParam

Spec == Init /\ [][Next]_vars

(* ------------------------- the directory tree -------------------------- *)

\* Entries of the tree under dir_path: D0 is dir_path itself.
\*   D0/ F0, D1/ F1, F2, D2/
Root == "D0"
DirSet == {"D0", "D1", "D2"}
FileSet == {"F0", "F1", "F2"}
Entries == DirSet \cup FileSet
Parent == [e \in Entries \ {Root} |->
              CASE e \in {"D1", "F0"} -> "D0"
                [] e \in {"D2", "F1", "F2"} -> "D1"]

\* The orders in which os.listdir may return a directory's entries.
Listings(d) ==
    CASE d = "D0" -> { <<"D1", "F0">> }
      [] d = "D1" -> { <<"F1", "F2", "D2">>, <<"F2", "F1", "D2">> }
      [] OTHER -> { <<>> }

\* Base names, as sequences of characters.
DirNames == { <<"L", "i", "b">>, <<"d", "o", "c">> }
FileNames == { <<"a", "P", "Y">>, <<"t", "x", "t">> }
DirFilter == <<"l", "i", "b">>
FileFilter == <<"p", "y">>

(* Timestamps.  A float [hi, lo] stands for hi * 10^8 s + lo * 2^-TickBits s, *)
(* a tick being the spacing of doubles in [2^30, 2^31) s, where the mtimes    *)
(* of this decade lie.  lo stays far below 2^30 ticks.                        *)
DBL_MANT_DIG == 53
PyFloat_STR_PRECISION == 12
TickBits == DBL_MANT_DIG - 31
Tick == 2 ^ TickBits
Float(hi, lo) == [t |-> "float", hi |-> hi, lo |-> lo]
Epoch == Float(14, 0)                       \* 1400000000.0: May 2014
DirTicks(d) == IF d = "D1" THEN {0, 1} ELSE {0}      \* + 0 s, + 2^-22 s
FileTicks == {0, 20970}                     \* + 0 s, + 0.0049996 s

NoFault == [op |-> "none", at |-> ""]
Faults == {NoFault}
             \cup { [op |-> "list", at |-> d] : d \in DirSet }
             \cup { [op |-> "stat", at |-> e] : e \in Entries }

\* At most one entry of the tree fails (permission denied, removed).
FsStates ==
    { [name |-> dn @@ fn, mtime |-> dm @@ fm, fault |-> ft, listing |-> ls] :
        dn \in [DirSet -> DirNames], fn \in [FileSet -> FileNames],
        dm \in { m \in [DirSet -> {Float(Epoch.hi, k) : k \in UNION {DirTicks(d) : d \in DirSet}}] :
                   \A d \in DirSet : m[d].lo \in DirTicks(d) },
        fm \in [FileSet -> {Float(Epoch.hi, k) : k \in FileTicks}],
        ft \in Faults,
        ls \in { l \in [DirSet -> UNION {Listings(d) : d \in DirSet}] :
                   \A d \in DirSet : l[d] \in Listings(d) } }

(* ------------------------------ re.search ------------------------------ *)

lower(c) ==
    CASE c = "L" -> "l" [] c = "P" -> "p" [] c = "Y" -> "y" [] OTHER -> c

\* re.search(pattern, string, flags=re.IGNORECASE) for a literal pattern:
\* the pattern occurs somewhere in the string, letter case ignored.
re_search(pattern, string) ==
    \E k \in 0..(Len(string) - Len(pattern)) :
        \A j \in 1..Len(pattern) : lower(string[k + j]) = lower(pattern[j])

(* ------------------------- os.walk, op.getmtime ------------------------ *)

OSError(path) == [type |-> "OSError", path |-> path]

\* A getmtime that answers 0.0 for a path it cannot stat.
getmtime_lenient(tree, e) ==
    IF tree.fault = [op |-> "stat", at |-> e]
    THEN Return([t |-> "float", hi |-> 0, lo |-> 0])
    ELSE Return(tree.mtime[e])

getmtime(tree, e) ==
    IF tree.fault = [op |-> "stat", at |-> e]
    THEN Raise(OSError(e))
    ELSE Return(tree.mtime[e])

basename(tree, e) == tree.name[e]

IsDir(e) == e \in DirSet
IsFile(e) == e \in FileSet

\* Top-down walk with onerror=None: a directory whose listing fails is
\* skipped without a word, its subtree with it.
RECURSIVE os_walk(_, _)
RECURSIVE walk_each(_, _, _)
walk_each(tree, dirs, i) ==
    IF i > Len(dirs) THEN <<>>
    ELSE os_walk(tree, dirs[i]) \o walk_each(tree, dirs, i + 1)

\* A walk that descends only into directories matching the filter.
os_walk_pruned(tree, top) ==
    IF tree.fault = [op |-> "list", at |-> top]
    THEN <<>>
    ELSE LET names == tree.listing[top]
             dirs == SelectSeq(names, IsDir)
             nondirs == SelectSeq(names, IsFile)
             kept == SelectSeq(dirs, LAMBDA d : re_search(DirFilter, tree.name[d]))
         IN <<[root |-> top, dirs |-> dirs, files |-> nondirs]>>
                \o walk_each(tree, kept, 1)

os_walk(tree, top) ==
    IF tree.fault = [op |-> "list", at |-> top]
    THEN <<>>
    ELSE LET names == tree.listing[top]
             dirs == SelectSeq(names, IsDir)
             nondirs == SelectSeq(names, IsFile)
         IN <<[root |-> top, dirs |-> dirs, files |-> nondirs]>>
                \o walk_each(tree, dirs, 1)

(* --------------------------- float arithmetic -------------------------- *)

\* The binary exponent e of a float of at least 10^8 s: 2^e <= x < 2^(e+1).
\* 10^8 = 2^8 * 5^8 and lo is below 2^8 s.
Exponent(x) ==
    CHOOSE e \in 26..37 :
        2 ^ (e - 8) <= x.hi * (5 ^ 8) /\ x.hi * (5 ^ 8) < 2 ^ (e - 7)

\* Spacing, in ticks, of the doubles around x.
Ulp(x) == 2 ^ (Exponent(x) - (DBL_MANT_DIG - 1) + TickBits)

\* n / unit rounded to the nearest integer, ties to the even one.
RoundHalfEven(n, unit) ==
    LET q == n \div unit
        r == n % unit
    IN IF 2 * r > unit \/ (2 * r = unit /\ q % 2 = 1) THEN q + 1 ELSE q

\* The exact value x rounded to a double.
RoundToDouble(x) ==
    IF x.hi = 0 THEN x
    ELSE Float(x.hi, RoundHalfEven(x.lo, Ulp(x)) * Ulp(x))

float_add(a, b) == RoundToDouble(Float(a.hi + b.hi, a.lo + b.lo))

PyInt0 == [t |-> "int", v |-> 0]
FromInt(n) == Float(0, n.v * Tick)

\* mtime_sum += modtime
py_add(mtime_sum, modtime) ==
    IF mtime_sum.t = "int"
    THEN float_add(FromInt(mtime_sum), modtime)
    ELSE float_add(mtime_sum, modtime)

(* --------------------------------- str --------------------------------- *)

DigitChars == <<"0", "1", "2", "3", "4", "5", "6", "7", "8", "9">>

RECURSIVE Digits(_)
Digits(n) ==
    IF n < 10 THEN <<DigitChars[n + 1]>>
    ELSE Digits(n \div 10) \o <<DigitChars[(n % 10) + 1]>>

\* n as exactly w digits, zero-padded on the left.
RECURSIVE Padded(_, _)
Padded(n, w) ==
    IF w = 0 THEN <<>> ELSE Padded(n \div 10, w - 1) \o <<DigitChars[(n % 10) + 1]>>

RECURSIVE StripZeros(_)
StripZeros(ds) ==
    IF ds # <<>> /\ ds[Len(ds)] = "0" THEN StripZeros(SubSeq(ds, 1, Len(ds) - 1)) ELSE ds

\* str of a float of 10^9 s or more (below 10^12 s): '%.12g', then '.0'
\* when no fraction is left.
float_str(x) ==
    LET whole == x.lo \div Tick                     \* seconds below 10^8
        intDigits == Len(Digits(x.hi)) + 8
        dec == PyFloat_STR_PRECISION - intDigits     \* decimals kept
        scaled == RoundHalfEven((x.lo % Tick) * (10 ^ dec), Tick)
        carry == scaled \div (10 ^ dec)
        frac == StripZeros(Padded(scaled % (10 ^ dec), dec))
    IN Digits(x.hi) \o Padded(whole + carry, 8) \o <<".">>
          \o (IF frac = <<>> THEN <<"0">> ELSE frac)

py_str(v) == IF v.t = "int" THEN Digits(v.v) ELSE float_str(v)

\* hashlib.md5(...).hexdigest(): one digest per string.
get_str_hash(source_str) == [md5 |-> source_str]

(* -------------------------- calculate_dir_hash ------------------------- *)

\* acc: the running mtime_sum, the entries added to it, the directories
\* the walk has yielded, and the exception that ended the loop, if any.
Acc0 == [mtime_sum |-> PyInt0, added |-> <<>>, visited |-> <<>>,
         raised |-> FALSE, exc |-> Exc("")]

Fail(acc, exc) == [acc EXCEPT !.raised = TRUE, !.exc = exc]
Add(acc, e, modtime) ==
    [acc EXCEPT !.mtime_sum = py_add(@, modtime), !.added = Append(@, e)]

RECURSIVE add_files(_, _, _, _, _)
add_files(tree, files, i, acc, file_filter) ==
    IF acc.raised \/ i > Len(files) THEN acc
    ELSE LET filename == files[i] IN
         IF re_search(file_filter, basename(tree, filename))
         THEN LET modtime == getmtime(tree, filename) IN
              IF modtime.raised
              THEN Fail(acc, modtime.exc)
              ELSE add_files(tree, files, i + 1, Add(acc, filename, modtime.value),
                             file_filter)
         ELSE add_files(tree, files, i + 1, acc, file_filter)

\* A turn of the loop that adds whatever the directory's name is.
visit_root_unfiltered(tree, step, acc, dir_filter, file_filter) ==
    LET modtime == getmtime(tree, step.root) IN
    IF modtime.raised
    THEN Fail(acc, modtime.exc)
    ELSE add_files(tree, step.files, 1, Add(acc, step.root, modtime.value),
                   file_filter)

\* One turn of the loop over the walk.
visit_root(tree, step, acc, dir_filter, file_filter) ==
    IF re_search(dir_filter, basename(tree, step.root))
    THEN LET modtime == getmtime(tree, step.root) IN
         IF modtime.raised
         THEN Fail(acc, modtime.exc)
         ELSE add_files(tree, step.files, 1, Add(acc, step.root, modtime.value),
                        file_filter)
    ELSE acc

RECURSIVE walk_loop(_, _, _, _, _, _)
walk_loop(tree, steps, i, acc, dir_filter, file_filter) ==
    IF acc.raised \/ i > Len(steps) THEN acc
    ELSE walk_loop(tree, steps, i + 1,
             visit_root(tree, steps[i],
                        [acc EXCEPT !.visited = Append(@, steps[i].root)],
                        dir_filter, file_filter),
             dir_filter, file_filter)

calculate_dir_hash(tree, dir_path, dir_filter, file_filter) ==
    LET acc == walk_loop(tree, os_walk(tree, dir_path), 1, Acc0,
                         dir_filter, file_filter)
    IN IF acc.raised
       THEN [raised |-> TRUE, exc |-> acc.exc,
             visited |-> acc.visited, added |-> acc.added]
       ELSE [raised |-> FALSE, value |-> get_str_hash(py_str(acc.mtime_sum)),
             visited |-> acc.visited, added |-> acc.added]

(* ------------------------------ actions -------------------------------- *)

Fingerprint ==
    /\ ncalls < MaxCalls
    /\ prev' = cur
    /\ cur' = calculate_dir_hash(fs, Root, DirFilter, FileFilter)
    /\ between' = touched
    /\ touched' = ""
    /\ ncalls' = ncalls + 1
    /\ UNCHANGED <<fs, parserVars>>

\* Something sets the mtime of one file, between two calls.
Touch ==
    /\ 0 < ncalls /\ ncalls < MaxCalls
    /\ touched = ""
    /\ \E f \in FileSet : \E k \in FileTicks :
         /\ fs.mtime[f] # Float(Epoch.hi, k)
         /\ fs' = [fs EXCEPT !.mtime[f] = Float(Epoch.hi, k)]
         /\ touched' = f
    /\ UNCHANGED <<prev, cur, between, ncalls, parserVars>>

ParserIdle ==
    /\ disk = [readable |-> FALSE, text |-> <<>>]
    /\ parser = NoInstance
    /\ ctor = NoCall
    /\ last = NoQuery
    /\ asked = {}

HashInit ==
    /\ fs \in FsStates
    /\ prev = NoCall
    /\ cur = NoCall
    /\ touched = ""
    /\ between = ""
    /\ ncalls = 0
    /\ ParserIdle

HashNext == Fingerprint \/ Touch

HashSpec == HashInit /\ [][HashNext]_vars

(* ---------------------- script parser: properties ---------------------- *)

Queried == last # NoQuery
Parsed == "ast_tree" \in DOMAIN parser
Body == parser.ast_tree.body

\* A top-level assignment whose targets include the simple identifier name.
IsAssignTo(stmt, name) ==
    /\ stmt.node = "Assign"
    /\ \E j \in 1..Len(stmt.targets) :
          stmt.targets[j].node = "Name" /\ stmt.targets[j].id = name
AssignsTo(name) == { i \in 1..Len(Body) : IsAssignTo(Body[i], name) }
Min(S) == CHOOSE m \in S : \A k \in S : m <= k
Max(S) == CHOOSE m \in S : \A k \in S : m >= k

\* A top-level del statement naming the simple identifier name.
IsDelOf(stmt, name) ==
    /\ stmt.node = "Delete"
    /\ \E j \in 1..Len(stmt.targets) :
          stmt.targets[j].node = "Name" /\ stmt.targets[j].id = name

RECURSIVE IsLiteralExpr(_)
IsLiteralExpr(e) ==
    \/ e.node = "Num"
    \/ e.node = "Name" /\ e.id \in {"None", "True", "False"}
    \/ e.node = "Tuple" /\ \A k \in 1..Len(e.elts) : IsLiteralExpr(e.elts[k])

RECURSIVE LiteralValue(_)
LiteralValue(e) ==
    CASE e.node = "Num" -> PyInt(e.n)
      [] e.node = "Tuple" -> PyTuple([k \in 1..Len(e.elts) |-> LiteralValue(e.elts[k])])
      [] e.node = "Name" /\ e.id = "None" -> PyNone
      [] OTHER -> [t |-> "bool", v |-> (e.id = "True")]

SyntaxOK(text) ==
    \A i \in 1..Len(text) :
        /\ text[i].stmt.s # "bad"
        /\ text[i].indent = 1 =>
              i > 1 /\ (text[i - 1].indent = 1 \/ text[i - 1].stmt.s = "def")
        /\ text[i].stmt.s = "def" => i < Len(text) /\ text[i + 1].indent = 1

\* C1 (as stated): with two or more top-level assignments to the queried
\* name, all of them literal and no del of the name, extract_param returns
\* the literal value of the LAST such assignment.
C1_LastAssignmentWins ==
    (/\ Queried /\ Parsed
     /\ Cardinality(AssignsTo(last.param)) >= 2
     /\ \A i \in AssignsTo(last.param) : IsLiteralExpr(Body[i].value)
     /\ \A i \in 1..Len(Body) : ~IsDelOf(Body[i], last.param))
    => last.out = Return(LiteralValue(Body[Max(AssignsTo(last.param))].value))

\* C1 (amended): with two or more top-level assignments to the queried name,
\* the FIRST one in document order decides: whenever extract_param returns,
\* it returns the literal value of the first such assignment, and it does
\* return when that assignment is literal and no earlier del names the name.
C1_FirstAssignmentWins ==
    (Queried /\ Parsed /\ Cardinality(AssignsTo(last.param)) >= 2)
    => LET first == Min(AssignsTo(last.param)) IN
       /\ ~last.out.raised =>
             /\ IsLiteralExpr(Body[first].value)
             /\ last.out = Return(LiteralValue(Body[first].value))
       /\ (/\ IsLiteralExpr(Body[first].value)
           /\ \A i \in 1..first : ~IsDelOf(Body[i], last.param))
          => ~last.out.raised

C1_Witness ==
    /\ Queried /\ Parsed
    /\ Cardinality(AssignsTo(last.param)) >= 2
    /\ Body[Min(AssignsTo(last.param))].value = Num(1)
    /\ Body[Max(AssignsTo(last.param))].value = Num(2)
    /\ last.out = Return(PyInt(1))

\* C2: when no top-level statement is an assignment to the queried simple
\* identifier (it may be assigned in a nested block only), extract_param
\* returns None and raises nothing.
C2_AbsentReturnsNone ==
    (Queried /\ Parsed /\ AssignsTo(last.param) = {})
    => last.out = Return(PyNone)

\* C3: when the first top-level assignment to the queried name has a value
\* that is no literal, extract_param raises the PyRevitException carrying
\* the parameter name, the file address and the cause; it returns nothing.
C3_NonLiteralRaises ==
    (/\ Queried /\ Parsed
     /\ AssignsTo(last.param) # {}
     /\ ~IsLiteralExpr(Body[Min(AssignsTo(last.param))].value))
    => /\ last.out.raised
       /\ last.out.exc.type = "PyRevitException"
       /\ \E cause \in {Exc("ValueError"), Exc("AttributeError")} :
             last.out.exc.msg =
                 <<"Error parsing parameter", last.param, FileAddr, cause>>

C3_Witness ==
    /\ Queried /\ Parsed
    /\ AssignsTo(last.param) # {}
    /\ Body[Min(AssignsTo(last.param))].value = CallE("f")
    /\ last.out = Raise(PyRevitException(
           <<"Error parsing parameter", last.param, FileAddr, Exc("ValueError")>>))

\* C4: construction from text that is unreadable or not syntactically valid
\* raises the parse error carrying the file address and the cause, and the
\* caller never holds an instance without the full syntax tree, so no
\* extract_param call is ever made on an unparsed script.
C4_ConstructionAtomic ==
    /\ parser # NoInstance =>
          /\ Parsed
          /\ disk.readable /\ SyntaxOK(disk.text)
          /\ parser.file_addr = FileAddr
          /\ Len(Body) = Cardinality({ i \in 1..Len(disk.text) : disk.text[i].indent = 0 })
    /\ (ctor # NoCall /\ ~(disk.readable /\ SyntaxOK(disk.text))) =>
          /\ parser = NoInstance
          /\ ctor.raised
          /\ ctor.exc.type = "PyRevitException"
          /\ \E cause \in {Exc("IOError"), Exc("SyntaxError"), Exc("IndentationError")} :
                ctor.exc.msg = <<"Error parsing script file", FileAddr, cause>>
    /\ Queried => Parsed /\ SyntaxOK(disk.text)

C4_Witness ==
    /\ disk.readable
    /\ \E i \in 1..Len(disk.text) : disk.text[i].stmt.s = "bad"
    /\ ctor = Raise(PyRevitException(
           <<"Error parsing script file", FileAddr, Exc("SyntaxError")>>))
    /\ parser = NoInstance

\* C7: queries leave the instance as constructed: after any sequence of
\* extract_param calls, failed ones included, the instance equals a fresh
\* instance of the same script and every call made returned what the first
\* call on a fresh instance returns.
C7_QueriesLeaveParserUnchanged ==
    parser # NoInstance =>
       LET fresh == ScriptFileParser__init__(FileAddr, disk).value IN
       /\ parser = fresh
       /\ \A q \in asked : q.out = extract_param(fresh, q.param).out

C7_Witness ==
    /\ Queried /\ Parsed
    /\ ~last.out.raised /\ last.out.value # PyNone
    /\ \E q \in asked : q.param # last.param /\ q.out.raised

(* -------------------- directory fingerprint: properties ---------------- *)

Called == cur # NoCall
Matches(pattern, e) == re_search(pattern, fs.name[e])
Listable(d) == fs.fault # [op |-> "list", at |-> d]

RECURSIVE Ancestors(_)
Ancestors(e) == IF e = Root THEN {} ELSE {Parent[e]} \cup Ancestors(Parent[e])

\* The directories the walk lists: listable, below listable directories.
Walked == { d \in DirSet : Listable(d) /\ \A a \in Ancestors(d) : Listable(a) }
\* The entries whose mtime the loop reads.
Relevant ==
    { d \in Walked : Matches(DirFilter, d) }
       \cup { f \in FileSet : /\ Parent[f] \in Walked
                              /\ Matches(DirFilter, Parent[f])
                              /\ Matches(FileFilter, f) }
Range(seq) == { seq[i] : i \in 1..Len(seq) }

\* C5 (as stated): an I/O failure met during the walk, while listing a
\* directory or reading the mtime of a matching entry, ends the call in an
\* error and no digest is returned.
C5_AnyFailurePropagates ==
    (/\ Called
     /\ \/ fs.fault.op = "list" /\ \A a \in Ancestors(fs.fault.at) : Listable(a)
        \/ fs.fault.op = "stat" /\ fs.fault.at \in Relevant)
    => cur.raised

\* C5 (amended): a failure to read the mtime of a matching directory or file
\* ends the call in that error and no digest is returned; a failure to list
\* a directory is not propagated: the walk skips the directory with its
\* subtree and the call returns the digest of what is left.
C5_StatFailurePropagates ==
    Called =>
       /\ (fs.fault.op = "stat" /\ fs.fault.at \in Relevant)
             => (cur.raised /\ cur.exc = OSError(fs.fault.at)
                    /\ "value" \notin DOMAIN cur)
       /\ fs.fault.op = "list"
             => (/\ ~cur.raised
                 /\ Range(cur.visited) = Walked
                 /\ fs.fault.at \notin Range(cur.visited)
                 /\ Range(cur.added) = Relevant)

C5_Witness ==
    /\ Called
    /\ fs.fault = [op |-> "stat", at |-> "F2"]
    /\ "F1" \in Range(cur.added)
    /\ cur.raised /\ cur.exc = OSError("F2")

\* C6: with nothing failing, a change of the mtime of one file that matches
\* file_filter and lies directly in a directory matching dir_filter changes
\* the digest; a change of the mtime of a non-matching file does not.
C6_TouchChangesDigest ==
    (/\ ncalls >= 2 /\ between # ""
     /\ fs.fault = NoFault)
    => /\ (Matches(FileFilter, between) /\ Matches(DirFilter, Parent[between]))
             => cur.value # prev.value
       /\ ~Matches(FileFilter, between) => cur.value = prev.value

\* C8: with nothing failing, two calls with no change in between return the
\* same digest, and the digest is the same for every order in which the
\* directories list their entries.
C8_OrderIndependent ==
    (Called /\ touched = "" /\ fs.fault = NoFault)
    => /\ (ncalls >= 2 /\ between = "") => cur.value = prev.value
       /\ \A l \in Listings("D1") :
             calculate_dir_hash([fs EXCEPT !.listing["D1"] = l],
                                Root, DirFilter, FileFilter).value = cur.value

\* C9: when no directory the walk visits has a base name matching
\* dir_filter, the call returns the digest of the string "0".
C9_NoMatchingDirGivesZero ==
    (Called /\ \A d \in Walked : ~Matches(DirFilter, d))
    => /\ ~cur.raised
       /\ cur.value = get_str_hash(<<"0">>)
       /\ cur.added = <<>>

C9_Witness ==
    /\ Called
    /\ \A d \in DirSet : ~Matches(DirFilter, d)
    /\ \A f \in FileSet : Matches(FileFilter, f)
    /\ cur.value = get_str_hash(<<"0">>)

====
